---- MODULE Spec2Model ----
(***************************************************************************)
(* Real-time delivery subsystem of chat-app-mini-server: the websocket Hub *)
(* (registry + router), the per-connection ReadPump / WritePump, and the   *)
(* HTTP handlers that publish to the Hub after a store mutation.           *)
(*                                                                         *)
(* Granularity.  Hub.Run is one goroutine; each case of its select is one  *)
(* action, including the store calls and the presence fan-out it makes.    *)
(* A fan-out reads every client's Chats once, under that client's own      *)
(* lock, and the reader loops touch only their own Chats, so a fan-out     *)
(* commutes with the reader steps of other clients and is taken as one     *)
(* step.  Register and Unregister are unbuffered channels: the sender's    *)
(* position (pc) is the pending request, and the Router's receive is the   *)
(* rendezvous.                                                             *)
(***************************************************************************)
EXTENDS Integers, Sequences, FiniteSets, TLC

\* ---------------------------------------------------------------- bounds
MaxSessions == 2      \* connections accepted during a run
SendCap == 1          \* capacity of Client.Send (256 in the program)
BroadcastCap == 1     \* capacity of Hub.Broadcast (256 in the program)
MaxPublish == 2       \* publish attempts (HTTP handlers + reader loops) during a run
MaxLog == 2           \* log lines written during a run where the log is at stake
FifoCap == 2          \* capacity of both channels where the order of a queue is at stake
MaxSlots == 3         \* connections accepted where a session is superseded beside a third
MaxCalls == 3         \* use-case calls made during a run where the store's arrays are at stake

\* ---------------------------------------------------------------- store data
Users == {"u1", "u2"}
Convs == {"c1", "c2"}

\* conv.Members of the conversations in the store
Members(c) == IF c = "c1" THEN {"u1", "u2"} ELSE IF c = "c2" THEN {"u1"} ELSE {}

\* user.Friends of the users in the store
Friends(u) == IF u = "u1" THEN {"u2"} ELSE IF u = "u2" THEN {"u1"} ELSE {}

\* the users of the store: those above and one who is nobody's friend
Accounts == Users \cup {"u3"}

\* the connections of a run, in the order they are accepted; a run of fewer
\* connections leaves the last ones unused ("none")
Sessions == 1..MaxSlots

\* ---------------------------------------------------------------- messages
Message(t, chat, group, sender) ==
    [Type |-> t, ChatID |-> chat, GroupID |-> group, SenderID |-> sender]

\* json.Marshal of a Message: the fields tagged omitempty are left out when empty
messageToBytes(m) ==
    [k \in {"Type"} \cup {f \in {"ChatID", "GroupID", "SenderID"} : m[f] # ""} |-> m[k]]

\* frames a client may send that the reader loop forwards to Hub.Broadcast
WsKinds == {"message", "typing"}
ForwardFrames(u) ==
    {Message(t, c, "", u) : t \in WsKinds, c \in Convs}

VARIABLES
    clients,     \* Hub.clients: set of <<userID, session>> pairs (the map's entries)
    Broadcast,   \* Hub.Broadcast: buffered channel of messages
    owner,       \* Client.UserID of each session ("" before it is created)
    pc,          \* where each session's HandleWebSocket / ReadPump stands
    wpc,         \* where each session's WritePump stands ("failed": ended on an error)
    Send,        \* Client.Send: buffered channel of encoded messages
    closed,      \* whether Client.Send has been closed
    Chats,       \* Client.Chats: the subscription set
    online,      \* user.Online in the store
    store,       \* mutations committed to the store (as the envelopes mirroring them)
    panicked,    \* the process died of a runtime panic
    published,   \* publish attempts made so far
    dropped,     \* events the HTTP handlers dropped on a full Hub.Broadcast
    chanCap,     \* cap() of the channels as they were made: fixed during a run
    mu,          \* Hub.mu: the goroutines that hold its read lock
    trace,       \* what the process has let out so far: log lines, HTTP answers,
                 \* sends on Hub.Broadcast and transport writes, in order
    db,          \* the users' friends, sent_requests and pending_requests arrays
                 \* and the conversations collection
    call         \* the use-case calls in flight: what each has read and has left to do

\* the state of the hub, its sessions and the store
hub == <<clients, Broadcast, owner, pc, wpc, Send, closed, Chats, online, store,
         panicked, published, dropped>>

vars == <<clients, Broadcast, owner, pc, wpc, Send, closed, Chats, online, store,
          panicked, published, dropped, chanCap, mu, trace, db, call>>

\* the users collection with the friends arrays given and no request, and an
\* empty conversations collection
Collections(friends) ==
    [friends |-> friends,
     sent_requests |-> [u \in Accounts |-> {}],
     pending_requests |-> [u \in Accounts |-> {}],
     conversations |-> {}]

\* the use-case calls of a run, in the order they are made
Calls == 1..MaxCalls

\* a call that has not been made
NoCall == [op |-> "", userID1 |-> "", userID2 |-> "", todo |-> <<>>, ret |-> ""]

\* the state after NewHub, with channels of the given capacities, before the
\* first of n connections, the users
\* collection holding the friends arrays given
StartWith(sendCap, broadcastCap, n, friends) ==
    /\ db = Collections(friends)
    /\ call = [k \in Calls |-> NoCall]
    /\ chanCap = [Send |-> sendCap, Broadcast |-> broadcastCap]
    /\ mu = {}
    /\ trace = <<>>
    /\ clients = {}
    /\ Broadcast = <<>>
    /\ owner = [s \in Sessions |-> ""]
    /\ pc = [s \in Sessions |-> IF s <= n THEN "new" ELSE "none"]
    /\ wpc = [s \in Sessions |-> "new"]
    /\ Send = [s \in Sessions |-> <<>>]
    /\ closed = [s \in Sessions |-> FALSE]
    /\ Chats = [s \in Sessions |-> {}]
    /\ online = [u \in Accounts |-> FALSE]
    /\ store = {}
    /\ panicked = FALSE
    /\ published = 0
    /\ dropped = 0

\* the same, the friends arrays being those the Hub reads
StartOf(sendCap, broadcastCap, n) ==
    StartWith(sendCap, broadcastCap, n, [u \in Accounts |-> Friends(u)])

Start(sendCap, broadcastCap) == StartOf(sendCap, broadcastCap, MaxSessions)

Init == Start(SendCap, BroadcastCap)

\* ---------------------------------------------------------------- registry reads
\* Hub.GetClient: the sessions the map holds under userID (a map holds at most one)
GetClient(cl, u) == {p[2] : p \in {q \in cl : q[1] = u}}

\* Hub.IsUserOnline
IsUserOnline(u) == GetClient(clients, u) # {}

\* mutant: the registry keeps the entry it had beside the new one
MapPut_KeepOld(cl, u, s) == cl \cup {<<u, s>>}

\* h.clients[client.UserID] = client
MapPut(cl, u, s) == {p \in cl : p[1] # u} \cup {<<u, s>>}

\* mutant: the entry is left in the map
MapDelete_Nothing(cl, u) == cl

\* delete(h.clients, userID)
MapDelete(cl, u) == {p \in cl : p[1] # u}

\* ---------------------------------------------------------------- fan-out
\* mutant: the group id is looked at first
ChatKey_GroupFirst(m) == IF m.GroupID = "" THEN m.ChatID ELSE m.GroupID

\* chatID := message.ChatID; if chatID == "" { chatID = message.GroupID }
ChatKey(m) == IF m.ChatID = "" THEN m.GroupID ELSE m.ChatID

\* mutant: the friend list is not consulted
FriendTargets_Everyone(cl, m, found) == IF found THEN {p[2] : p \in cl} ELSE {}

\* mutant: the subscription test is left out
ChatTargets_Unfiltered(cl, m) == {p[2] : p \in cl}

\* broadcastToChat: the clients of the registry whose Chats holds the message's chat
ChatTargets(cl, m) == {p[2] : p \in {q \in cl : ChatKey(m) \in Chats[q[2]]}}

\* broadcastToFriends: the registered clients of the sender's friends; none when
\* UserRepo.GetByID fails
FriendTargets(cl, m, found) ==
    IF found THEN {p[2] : p \in {q \in cl : q[1] \in Friends(m.SenderID)}} ELSE {}

\* broadcastToAll: every client of the registry
AllTargets(cl) == {p[2] : p \in cl}

\* mutant: the switch has no default case of its own: every other kind goes to
\* the subscribers of the chat
BroadcastTargets_NoDefault(cl, m, found) ==
    IF m.Type \in {"online", "offline"} THEN FriendTargets(cl, m, found)
    ELSE ChatTargets(cl, m)

\* handleBroadcast: the switch on message.Type
BroadcastTargets(cl, m, found) ==
    CASE m.Type \in {"message", "typing"} -> ChatTargets(cl, m)
      [] m.Type \in {"online", "offline"} -> FriendTargets(cl, m, found)
      [] OTHER -> AllTargets(cl)

\* select { case client.Send <- bytes: default: close(client.Send); delete(...) }
\* over the targets T, from registry cl and closed flags cz.
Overflowed(cz, T) == {s \in T : ~cz[s] /\ Len(Send[s]) >= chanCap.Send}
SendOnClosed(cz, T) == \E s \in T : cz[s]
\* mutant: the message goes to the front of the queue
SendAfter_Front(cz, T, m) ==
    [s \in Sessions |->
        IF s \in T /\ ~cz[s] /\ Len(Send[s]) < chanCap.Send
        THEN <<messageToBytes(m)>> \o Send[s] ELSE Send[s]]

SendAfter(cz, T, m) ==
    [s \in Sessions |->
        IF s \in T /\ ~cz[s] /\ Len(Send[s]) < chanCap.Send
        THEN Append(Send[s], messageToBytes(m)) ELSE Send[s]]
ClosedAfter(cz, T) == [s \in Sessions |-> cz[s] \/ s \in Overflowed(cz, T)]
\* mutant: the overflow branch closes the channel and forgets the delete
ClientsAfter_NoDelete(cl, cz, T) == cl

ClientsAfter(cl, cz, T) ==
    {p \in cl : ~\E s \in Overflowed(cz, T) : owner[s] = p[1]}

\* the process dies of a runtime panic: nothing else of its state is observable any more
Panic ==
    /\ panicked' = TRUE
    /\ UNCHANGED <<clients, Broadcast, owner, pc, wpc, Send, closed, Chats, online,
                   store, published, dropped>>

\* the fan-out of message m to the targets T, from registry cl and closed flags cz;
\* a send on a closed channel panics
Deliver(m, cl, cz, T) ==
    IF SendOnClosed(cz, T)
    THEN Panic
    ELSE /\ Send' = SendAfter(cz, T, m)
         /\ closed' = ClosedAfter(cz, T)
         /\ clients' = ClientsAfter(cl, cz, T)
         /\ panicked' = FALSE

\* mutant: the status type is "online" whatever the flag
StatusMessage_AlwaysOnline(u, isOnline) == Message("online", "", "", u)

\* broadcastOnlineStatus builds this message
StatusMessage(u, isOnline) ==
    Message(IF isOnline THEN "online" ELSE "offline", "", "", u)

\* broadcastOnlineStatus: nobody when its own GetByID fails, else broadcastToFriends
StatusTargets(cl, m, okStatus, okFriends) ==
    IF okStatus THEN FriendTargets(cl, m, okFriends) ELSE {}

\* ---------------------------------------------------------------- store writes
\* user.Online = isOnline; UserRepo.UpdateUser(user): UpdateOne with {"$set": user}.
\* Online is tagged bson:"online,omitempty", so the document that is set has the
\* field only when it is true, and a false leaves the stored field as it is
UpdateUser(on, u, isOnline) == IF isOnline THEN [on EXCEPT ![u] = TRUE] ELSE on

\* ---------------------------------------------------------------- Hub.Run
\* mutant: the last connection wins by force: the case closes the queue of the
\* session it supersedes
RunRegister_ClosesOld(s, okUpdate, okStatus, okFriends) ==
    /\ ~panicked
    /\ pc[s] = "registering"
    /\ LET u == owner[s]
           m == StatusMessage(u, TRUE)
           cl == MapPut(clients, u, s)
           cz == [r \in Sessions |-> closed[r] \/ r \in GetClient(clients, u)]
       IN  /\ Deliver(m, cl, cz, StatusTargets(cl, m, okStatus, okFriends))
           /\ IF panicked'
              THEN TRUE
              ELSE /\ pc' = [pc EXCEPT ![s] = "active"]
                   /\ wpc' = [wpc EXCEPT ![s] = "run"]
                   /\ online' = IF okUpdate THEN UpdateUser(online, u, TRUE) ELSE online
                   /\ UNCHANGED <<Broadcast, owner, Chats, store, published, dropped>>

\* case client := <-h.Register.  okUpdate, okStatus, okFriends: whether the three
\* UserRepo.GetByID calls of the case succeed.
RunRegister(s, okUpdate, okStatus, okFriends) ==
    /\ ~panicked
    /\ pc[s] = "registering"
    /\ LET u == owner[s]
           m == StatusMessage(u, TRUE)
           cl == MapPut(clients, u, s)
       IN  /\ Deliver(m, cl, closed, StatusTargets(cl, m, okStatus, okFriends))
           /\ IF panicked'
              THEN TRUE
              ELSE /\ pc' = [pc EXCEPT ![s] = "active"]
                   /\ wpc' = [wpc EXCEPT ![s] = "run"]
                   /\ online' = IF okUpdate THEN UpdateUser(online, u, TRUE) ELSE online
                   /\ UNCHANGED <<Broadcast, owner, Chats, store, published, dropped>>

\* if _, ok := h.clients[client.UserID]; ok: the test the Unregister case makes
\* before it deletes the entry and closes the client's channel
UnregisterFinds(cl, s) == GetClient(cl, owner[s]) # {}

\* case client := <-h.Unregister
RunUnregister(s, okUpdate, okStatus, okFriends) ==
    /\ ~panicked
    /\ pc[s] = "unregistering"
    /\ LET u == owner[s]
           m == StatusMessage(u, FALSE)
           present == UnregisterFinds(clients, s)
           cl == IF present THEN MapDelete(clients, u) ELSE clients
           cz == IF present THEN [closed EXCEPT ![s] = TRUE] ELSE closed
       IN  IF present /\ closed[s]
           THEN Panic      \* close of a closed channel
           ELSE /\ Deliver(m, cl, cz, StatusTargets(cl, m, okStatus, okFriends))
                /\ IF panicked'
                   THEN TRUE
                   ELSE /\ pc' = [pc EXCEPT ![s] = "closed"]
                        /\ online' = IF okUpdate THEN UpdateUser(online, u, FALSE)
                                     ELSE online
                        /\ UNCHANGED <<Broadcast, owner, wpc, Chats, store, published,
                                       dropped>>

\* case message := <-h.Broadcast
RunBroadcast(okFriends) ==
    /\ ~panicked
    /\ Broadcast # <<>>
    /\ LET m == Head(Broadcast)
       IN  /\ Deliver(m, clients, closed, BroadcastTargets(clients, m, okFriends))
           /\ IF panicked'
              THEN TRUE
              ELSE /\ Broadcast' = Tail(Broadcast)
                   /\ UNCHANGED <<owner, pc, wpc, Chats, online, store, published,
                                  dropped>>

\* ---------------------------------------------------------------- HandleWebSocket
\* a valid token of user u: the client is built and the handler blocks on
\* h.Hub.Register <- client (sessions are numbered in the order they connect)
HandleWebSocket(s, u) ==
    /\ ~panicked
    /\ pc[s] = "new"
    /\ \A r \in Sessions : r < s => pc[r] # "new"
    /\ owner' = [owner EXCEPT ![s] = u]
    /\ pc' = [pc EXCEPT ![s] = "registering"]
    /\ UNCHANGED <<clients, Broadcast, wpc, Send, closed, Chats, online, store,
                   panicked, published, dropped>>

\* ---------------------------------------------------------------- ReadPump
\* what case "subscribe" leaves in c.Chats for a frame with these chatId and groupId
Subscribed(chats, chat, group) == chats \cup ({chat, group} \ {""})

\* mutant: unsubscribe resets the whole set
Unsubscribed_Reset(chats, chat, group) == {}

\* what case "unsubscribe" leaves in c.Chats
Unsubscribed(chats, chat, group) == chats \ {chat, group}

\* case "subscribe"
ReadSubscribe(s, chat, group) ==
    /\ ~panicked
    /\ pc[s] = "active"
    /\ Chats' = [Chats EXCEPT ![s] = Subscribed(@, chat, group)]
    /\ UNCHANGED <<clients, Broadcast, owner, pc, wpc, Send, closed, online, store,
                   panicked, published, dropped>>

\* case "unsubscribe"
ReadUnsubscribe(s, chat, group) ==
    /\ ~panicked
    /\ pc[s] = "active"
    /\ Chats' = [Chats EXCEPT ![s] = Unsubscribed(@, chat, group)]
    /\ UNCHANGED <<clients, Broadcast, owner, pc, wpc, Send, closed, online, store,
                   panicked, published, dropped>>

\* case "typing" and default: c.Hub.Broadcast <- &message (blocks while the queue is full)
ReadForward(s, m) ==
    /\ ~panicked
    /\ pc[s] = "active"
    /\ published < MaxPublish
    /\ Len(Broadcast) < chanCap.Broadcast
    /\ Broadcast' = Append(Broadcast, m)
    /\ published' = published + 1
    /\ UNCHANGED <<clients, owner, pc, wpc, Send, closed, Chats, online, store,
                   panicked, dropped>>

\* ReadMessage fails (peer close, deadline, transport closed): break, and the deferred
\* function blocks on c.Hub.Unregister <- c
ReadError(s) ==
    /\ ~panicked
    /\ pc[s] = "active"
    /\ pc' = [pc EXCEPT ![s] = "unregistering"]
    /\ UNCHANGED <<clients, Broadcast, owner, wpc, Send, closed, Chats, online, store,
                   panicked, published, dropped>>

\* ---------------------------------------------------------------- WritePump
\* case message, ok := <-c.Send with ok: the message and all that is queued behind it
\* go out in one transport write
WriteDrain(s) ==
    /\ ~panicked
    /\ wpc[s] = "run"
    /\ Send[s] # <<>>
    /\ Send' = [Send EXCEPT ![s] = <<>>]
    /\ UNCHANGED <<clients, Broadcast, owner, pc, wpc, closed, Chats, online, store,
                   panicked, published, dropped>>

\* case message, ok := <-c.Send with !ok (closed and drained): close frame, return
WriteClose(s) ==
    /\ ~panicked
    /\ wpc[s] = "run"
    /\ Send[s] = <<>>
    /\ closed[s]
    /\ wpc' = [wpc EXCEPT ![s] = "done"]
    /\ UNCHANGED <<clients, Broadcast, owner, pc, Send, closed, Chats, online, store,
                   panicked, published, dropped>>

\* the ping fails (nothing was taken from c.Send), NextWriter fails (one message
\* was taken) or w.Close fails (all that was queued was taken): return
WriteError(s) ==
    /\ ~panicked
    /\ wpc[s] = "run"
    /\ wpc' = [wpc EXCEPT ![s] = "failed"]
    /\ \E q \in {Send[s]} \cup (IF Send[s] # <<>> THEN {Tail(Send[s]), <<>>} ELSE {}) :
          Send' = [Send EXCEPT ![s] = q]
    /\ UNCHANGED <<clients, Broadcast, owner, pc, closed, Chats, online, store,
                   panicked, published, dropped>>

\* ---------------------------------------------------------------- HTTP handlers
\* mutant: the send is made without the default branch's capacity test
Publish_Unbounded(q, m) == Append(q, m)

\* select { case h.Hub.Broadcast <- message: default: }
Publish(q, m) == IF Len(q) < chanCap.Broadcast THEN Append(q, m) ELSE q

\* the use case succeeded: the mutation is committed (when it makes one), the
\* envelope is published and the handler answers 200
Respond(m, commit) ==
    /\ store' = IF commit THEN store \cup {m} ELSE store
    /\ Broadcast' = Publish(Broadcast, m)
    /\ dropped' = IF Len(Broadcast) < chanCap.Broadcast THEN dropped ELSE dropped + 1
    /\ published' = published + 1
    /\ UNCHANGED <<clients, owner, pc, wpc, Send, closed, Chats, online, panicked>>

\* the use case returned an error: 401 or 500, nothing committed, nothing published
Refuse == UNCHANGED hub

\* ConversationHandler.SendMessage
SendMessage(u, c) ==
    /\ ~panicked
    /\ published < MaxPublish
    /\ IF u \in Members(c) THEN Respond(Message("message", c, "", u), TRUE) ELSE Refuse

\* ConversationHandler.AddReaction on a stored message msg
AddReaction(u, msg) ==
    /\ ~panicked
    /\ published < MaxPublish
    /\ msg \in store /\ msg.Type = "message"
    /\ IF u \in Members(msg.ChatID)
       THEN Respond(Message("reaction", msg.ChatID, "", u), TRUE)
       ELSE Refuse

\* ConversationHandler.MarkAsRead on a stored message msg; the use case commits
\* nothing for the sender's own message and still returns nil
MarkAsRead(u, msg) ==
    /\ ~panicked
    /\ published < MaxPublish
    /\ msg \in store /\ msg.Type = "message"
    /\ IF u \in Members(msg.ChatID)
       THEN Respond(Message("read_receipt", msg.ChatID, "", u), msg.SenderID # u)
       ELSE Refuse

\* ---------------------------------------------------------------- specifications
\* the store answers every call
StoreUp == {TRUE}

\* the <<chatId, groupId>> of the subscribe and unsubscribe frames clients send
ControlFrames ==
    {<<c, "">> : c \in Convs} \cup {<<"", c>> : c \in Convs} \cup {<<"", "">>}

\* the step leaves the channels' capacities, the lock and the trace as they are
Quiet == UNCHANGED <<chanCap, db, call, mu, trace>>

\* Spec: the hub, its sessions from connection to teardown, and the messages the
\* HTTP layer publishes.  A writer loop that has failed is, to the hub, a writer
\* loop that is never scheduled again, so WriteError adds no hub state here.
Next ==
    \/ \E s \in Sessions, u \in Users : HandleWebSocket(s, u) /\ Quiet
    \/ \E s \in Sessions, a, b, c \in StoreUp : RunRegister(s, a, b, c) /\ Quiet
    \/ \E s \in Sessions, a, b, c \in StoreUp : RunUnregister(s, a, b, c) /\ Quiet
    \/ \E a \in StoreUp : RunBroadcast(a) /\ Quiet
    \/ \E s \in Sessions, f \in ControlFrames : ReadSubscribe(s, f[1], f[2]) /\ Quiet
    \/ \E s \in Sessions, f \in ControlFrames : ReadUnsubscribe(s, f[1], f[2]) /\ Quiet
    \/ \E s \in Sessions : ReadError(s) /\ Quiet
    \/ \E s \in Sessions : WriteDrain(s) /\ Quiet
    \/ \E s \in Sessions : WriteClose(s) /\ Quiet
    \/ \E u \in Users, c \in Convs : SendMessage(u, c) /\ Quiet

Spec == Init /\ [][Next]_vars

\* SpecEvents: every kind of event, from the HTTP layer and from the reader loops.
NextEvents ==
    \/ \E s \in Sessions, u \in Users : HandleWebSocket(s, u) /\ Quiet
    \/ \E s \in Sessions, a, b, c \in StoreUp : RunRegister(s, a, b, c) /\ Quiet
    \/ \E s \in Sessions, a, b, c \in StoreUp : RunUnregister(s, a, b, c) /\ Quiet
    \/ \E a \in StoreUp : RunBroadcast(a) /\ Quiet
    \/ \E s \in Sessions, chat \in Convs : ReadSubscribe(s, chat, "") /\ Quiet
    \/ \E s \in Sessions : \E m \in ForwardFrames(owner[s]) : ReadForward(s, m) /\ Quiet
    \/ \E s \in Sessions : ReadError(s) /\ Quiet
    \/ \E s \in Sessions : WriteDrain(s) /\ Quiet
    \/ \E s \in Sessions : WriteClose(s) /\ Quiet
    \/ \E u \in Users, c \in Convs : SendMessage(u, c) /\ Quiet
    \/ \E u \in Users : \E msg \in store : AddReaction(u, msg) /\ Quiet
    \/ \E u \in Users : \E msg \in store : MarkAsRead(u, msg) /\ Quiet

SpecEvents == Init /\ [][NextEvents]_vars

\* ---------------------------------------------------------------- properties
\* steps of the Router, whatever the store answers
BroadcastStep == Len(Broadcast') < Len(Broadcast) /\ \E a \in BOOLEAN : RunBroadcast(a)
RegisterStep(s) ==
    pc[s] = "registering" /\ pc'[s] = "active"
    /\ \E a, b, c \in BOOLEAN : RunRegister(s, a, b, c)
UnregisterStep(s) ==
    pc[s] = "unregistering" /\ pc'[s] = "closed"
    /\ \E a, b, c \in BOOLEAN : RunUnregister(s, a, b, c)

\* the session is the registry's current entry for its user
Registered(s) == <<owner[s], s>> \in clients

\* the envelope a session's queue receives for a message event of conversation c
\* sent by u
MessageEnvelope(c, u) == [Type |-> "message", ChatID |-> c, SenderID |-> u]

\* C1: when the Router processes a 'message' event for conversation C while no
\* registered session's outbound queue is full, exactly one envelope of the event is
\* appended to the queue of every registered session whose subscription set holds C,
\* and the queue of every other session is left as it was.
C1_MessageFanout ==
    [][ \A c \in Convs, u \in Users :
          ( /\ BroadcastStep
            /\ Head(Broadcast) = Message("message", c, "", u)
            /\ \A p \in clients : Len(Send[p[2]]) < SendCap )
          => \A s \in Sessions :
                Send'[s] = IF Registered(s) /\ c \in Chats[s]
                           THEN Append(Send[s], MessageEnvelope(c, u))
                           ELSE Send[s] ]_vars

\* C1 witness: two registered sessions after a message of c1 was fanned out: the
\* subscriber holds exactly its envelope, the session not subscribed holds nothing.
C1_Witness ==
    \E s, r \in Sessions :
        /\ Registered(s) /\ Registered(r) /\ s # r
        /\ "c1" \in Chats[s] /\ "c1" \notin Chats[r]
        /\ \E u \in Users : Send[s] = <<MessageEnvelope("c1", u)>>
        /\ Send[r] = <<>>
        /\ Broadcast = <<>> /\ published = 1 /\ dropped = 0

\* C2 (as claimed): an Unregister of a session that is not the registry's current
\* entry for its user leaves that user's entry as it is.
C2_StaleUnregisterNoop ==
    [][ \A s \in Sessions :
          (UnregisterStep(s) /\ ~Registered(s))
          => GetClient(clients', owner[s]) = GetClient(clients, owner[s]) ]_vars

\* C3: a session whose outbound queue is full when the Router attempts a delivery to
\* it is, after that attempt, out of the registry with its queue closed; and from
\* then on it stays closed and out of the registry, and nothing is enqueued on it.
C3_OverflowEvicts ==
    [][ \A s \in Sessions :
          /\ ( /\ BroadcastStep
               /\ s \in BroadcastTargets(clients, Head(Broadcast), TRUE)
               /\ Len(Send[s]) = SendCap )
             => (~Registered(s)' /\ closed'[s])
          /\ closed[s]
             => (closed'[s] /\ ~Registered(s)' /\ Len(Send'[s]) <= Len(Send[s])) ]_vars

\* C3 witness: a session evicted by a broadcast (no other user ever connected, so no
\* presence event was ever delivered): closed, out of the registry, its queue still
\* full and its reader still running.
C3_Witness ==
    \E s \in Sessions :
        /\ pc[s] = "active" /\ closed[s] /\ ~Registered(s)
        /\ Len(Send[s]) = SendCap
        /\ \A r \in Sessions : owner[r] \in {"", owner[s]}
        /\ published = MaxPublish /\ Broadcast = <<>>

\* C4 (as claimed): a 'reaction' or 'read_receipt' event is enqueued only on
\* registered sessions whose subscription set holds the event's conversation.
C4_ReactionTopicFanout ==
    [][ ( /\ BroadcastStep
          /\ Head(Broadcast).Type \in {"reaction", "read_receipt"} )
        => \A s \in Sessions :
              Send'[s] # Send[s]
              => (Registered(s) /\ Head(Broadcast).ChatID \in Chats[s]) ]_vars

\* the registry holds at most one entry per user
OneEntryPerUser(cl) == \A p, q \in cl : p[1] = q[1] => p = q

\* C5: the registry never holds two entries for one user, and right after the Router
\* has processed the Register of session s, the one entry of s's user is s and
\* IsUserOnline answers true for that user.
C5_OneEntryLastWins ==
    [][ /\ OneEntryPerUser(clients')
        /\ \A s \in Sessions :
              RegisterStep(s)
              => /\ {p \in clients' : p[1] = owner[s]} = {<<owner[s], s>>}
                 /\ IsUserOnline(owner[s])' ]_vars

\* C5 witness: two sessions of one user, both registered and still running; the
\* registry holds the second.
C5_Witness ==
    \E s, r \in Sessions :
        /\ s # r /\ owner[s] = owner[r] /\ owner[s] # ""
        /\ pc[s] = "active" /\ pc[r] = "active"
        /\ clients = {<<owner[r], r>>}
        /\ IsUserOnline(owner[r])
\* C6 (as claimed): a 'message' event for c processed by the Router is enqueued on
\* every registered session whose reader has subscribed it to c, and on no registered
\* session that is not (any more) subscribed to c.
C6_SubscribedAlwaysDelivered ==
    [][ \A s \in Sessions, c \in Convs, u \in Users :
          ( /\ BroadcastStep
            /\ Head(Broadcast) = Message("message", c, "", u)
            /\ Registered(s) )
          => Send'[s] = IF c \in Chats[s] THEN Append(Send[s], MessageEnvelope(c, u))
                        ELSE Send[s] ]_vars

\* C6 (amended): a subscribe frame adds its conversations to the session's
\* subscription set and an unsubscribe frame removes them; a 'message' event for c
\* processed by the Router is enqueued on a registered session subscribed to c when
\* that session's queue is not full (with a full queue the session is evicted and
\* nothing is enqueued), and is not enqueued on a registered session not subscribed
\* to c.
C6_SubscribeThenDelivery ==
    [][ /\ \A s \in Sessions, f \in ControlFrames :
            /\ (Chats'[s] # Chats[s] /\ ReadSubscribe(s, f[1], f[2]))
               => Chats'[s] = Chats[s] \cup ({f[1], f[2]} \ {""})
            /\ (Chats'[s] # Chats[s] /\ ReadUnsubscribe(s, f[1], f[2]))
               => Chats'[s] = Chats[s] \ {f[1], f[2]}
        /\ \A s \in Sessions, c \in Convs, u \in Users :
            ( /\ BroadcastStep
              /\ Head(Broadcast) = Message("message", c, "", u)
              /\ Registered(s) )
            => /\ (c \in Chats[s] /\ Len(Send[s]) < SendCap)
                    => Send'[s] = Append(Send[s], MessageEnvelope(c, u))
               /\ (c \in Chats[s] /\ Len(Send[s]) = SendCap)
                    => (Send'[s] = Send[s] /\ closed'[s] /\ ~Registered(s)')
               /\ c \notin Chats[s] => Send'[s] = Send[s] ]_vars

\* C6 witness: a registered session that received a message of c1 while subscribed
\* and has since unsubscribed; a second message of c1 has been processed and the
\* queue holds the first alone.
C6_Witness ==
    \E s \in Sessions :
        /\ Registered(s) /\ "c1" \notin Chats[s] /\ wpc[s] = "run"
        /\ \E u \in Users : Send[s] = <<MessageEnvelope("c1", u)>>
        /\ Broadcast = <<>> /\ published = 2 /\ dropped = 0
        /\ \A r \in Sessions : owner[r] \in {"", owner[s]}

\* C7 (as claimed): every event on the publish queue describes a mutation that has
\* been committed to the store.
C7_PublishedIsCommitted ==
    \A i \in 1..Len(Broadcast) : Broadcast[i] \in store

\* C8: the publish of an HTTP handler never blocks: the handler can always take its
\* step, and when the publish queue is full that step leaves the queue as it is,
\* commits the mutation as usual and touches nothing of the hub: the event is dropped.
C8_PublishNeverBlocks ==
    /\ [](\A u \in Users, c \in Convs :
            (~panicked /\ published < MaxPublish) => ENABLED SendMessage(u, c))
    /\ [][ \A u \in Users, c \in Convs :
            ( /\ u \in Members(c)
              /\ Len(Broadcast) = BroadcastCap
              /\ published' = published + 1
              /\ SendMessage(u, c) )
            => /\ Broadcast' = Broadcast
               /\ store' = store \cup {Message("message", c, "", u)}
               /\ dropped' = dropped + 1
               /\ UNCHANGED <<clients, Send, closed, Chats, pc, wpc, online,
                              panicked>> ]_vars

\* C8 witness: two mutations are committed, the publish queue is full and one event
\* has been dropped.
C8_Witness ==
    /\ dropped = 1 /\ published = 2
    /\ Len(Broadcast) = BroadcastCap
    /\ Cardinality(store) = 2
    /\ ~panicked

\* C9 (as claimed): the process never dies: the Router never closes a closed queue
\* and never sends on a closed queue.
C9_NeverFatal == ~panicked

\* C10 (as claimed): a session's subscription set holds only conversations its user
\* is a member of.
C10_SubscriptionsAuthorized ==
    \A s \in Sessions : \A c \in Chats[s] : owner[s] \in Members(c)

\* ---------------------------------------------------------------- presence
\* the presence frames a client may send: ReadPump forwards them like any other
PresenceFrames == {Message(k, "", "", u) : k \in {"online", "offline"}, u \in Accounts}

\* SpecPresence: sessions of friends and strangers come and go, clients send
\* presence frames of their own, and the store may fail any lookup.
NextPresence ==
    \/ \E s \in Sessions, u \in Accounts : HandleWebSocket(s, u) /\ Quiet
    \/ \E s \in Sessions, a, b, c \in BOOLEAN : RunRegister(s, a, b, c) /\ Quiet
    \/ \E s \in Sessions, a, b, c \in BOOLEAN : RunUnregister(s, a, b, c) /\ Quiet
    \/ \E a \in BOOLEAN : RunBroadcast(a) /\ Quiet
    \/ \E s \in Sessions, m \in PresenceFrames : ReadForward(s, m) /\ Quiet
    \/ \E s \in Sessions : ReadError(s) /\ Quiet
    \/ \E s \in Sessions : WriteDrain(s) /\ Quiet
    \/ \E s \in Sessions : WriteClose(s) /\ Quiet

SpecPresence == Init /\ [][NextPresence]_vars

\* the envelope a session's queue receives for a presence event of user u
StatusEnvelope(k, u) == [Type |-> k, SenderID |-> u]

\* the queues after a presence event k of user u went to u's friends, when the
\* store answered the lookups (found) or did not
FriendsQueues(k, u, found) ==
    [r \in Sessions |->
        IF found /\ Registered(r) /\ owner[r] \in Friends(u)
                 /\ Len(Send[r]) < chanCap.Send
        THEN Append(Send[r], StatusEnvelope(k, u)) ELSE Send[r]]

\* C11: when the Router processes an 'online' or 'offline' event of sender u from
\* the publish queue, the event is appended to the queue of every registered
\* session of a friend of u (as the store lists them at that moment) whose queue is
\* not full, and to no other queue; and the presence event the Router sends on a
\* Register or an Unregister changes the queue of no session but a registered
\* session of a friend.
C11_PresenceToFriendsOnly ==
    [][ /\ \A ok \in BOOLEAN :
            ( /\ Len(Broadcast') < Len(Broadcast)
              /\ Head(Broadcast).Type \in {"online", "offline"}
              /\ RunBroadcast(ok) )
            => Send' = FriendsQueues(Head(Broadcast).Type, Head(Broadcast).SenderID, ok)
        /\ \A s \in Sessions :
            (RegisterStep(s) \/ UnregisterStep(s))
            => \A r \in Sessions :
                  Send'[r] # Send[r]
                  => (Registered(r) /\ owner[r] \in Friends(owner[s])) ]_vars

\* C11 witness: a friend of u1 and a stranger are both registered, a presence event
\* of u1 has been processed: the friend's queue holds it, the stranger's is empty.
C11_Witness ==
    \E s, r \in Sessions :
        /\ Registered(s) /\ owner[s] = "u2"
        /\ Registered(r) /\ owner[r] = "u3"
        /\ Send[s] = <<StatusEnvelope("online", "u1")>>
        /\ Send[r] = <<>>
        /\ Broadcast = <<>> /\ published = 1

\* C12 (as claimed): every Register the Router processes appends an 'online' event,
\* and every Unregister an 'offline' event, of that user to the queue of every
\* registered session of the user's friends.
C12_PresenceAlwaysDelivered ==
    [][ \A s \in Sessions :
          /\ RegisterStep(s) => Send' = FriendsQueues("online", owner[s], TRUE)
          /\ UnregisterStep(s) => Send' = FriendsQueues("offline", owner[s], TRUE)
          /\ (RegisterStep(s) \/ UnregisterStep(s))
             => \A r \in Sessions :
                   (Registered(r) /\ owner[r] \in Friends(owner[s]))
                   => Len(Send'[r]) = Len(Send[r]) + 1 ]_vars

\* C12 (amended): a Register the Router processes appends an 'online' event, and an
\* Unregister an 'offline' event, of that user to the queue of every registered
\* session of the user's friends whose queue is not full, when the store answers
\* the two lookups the event needs; a friend's session whose queue is full is
\* evicted and gets nothing, and when a lookup fails nobody gets the event.
C12_PresenceOnRegisterUnregister ==
    [][ \A s \in Sessions, a, b, c \in BOOLEAN :
          /\ (pc[s] = "registering" /\ pc'[s] = "active" /\ RunRegister(s, a, b, c))
             => Send' = FriendsQueues("online", owner[s], b /\ c)
          /\ (pc[s] = "unregistering" /\ pc'[s] = "closed" /\ RunUnregister(s, a, b, c))
             => Send' = FriendsQueues("offline", owner[s], b /\ c)
          /\ ( /\ pc'[s] # pc[s]
               /\ RunRegister(s, a, b, c) \/ RunUnregister(s, a, b, c)
               /\ b /\ c )
             => \A r \in Sessions :
                   ( /\ Registered(r) /\ owner[r] \in Friends(owner[s])
                     /\ Len(Send[r]) = chanCap.Send )
                   => (closed'[r] /\ ~Registered(r)') ]_vars

\* C12 witness: u1's session has come and gone while its friend u2 stayed
\* registered: u2's queue, drained after the 'online' event, holds the 'offline' one.
C12_Witness ==
    \E s, r \in Sessions :
        /\ owner[s] = "u1" /\ pc[s] = "closed"
        /\ owner[r] = "u2" /\ Registered(r)
        /\ Send[r] = <<StatusEnvelope("offline", "u1")>>
        /\ online["u2"]

\* ---------------------------------------------------------------- order
\* []byte{'\n'}, as a chunk of a transport write
Newline == [Type |-> "\n"]

\* mutant: the messages are written one behind the other
WriteFrame_Unseparated(q) == q

RECURSIVE WriteFrame(_)
\* one transport write of WritePump: w.Write(message), then for each of the
\* len(c.Send) messages queued behind it a newline and w.Write(<-c.Send)
WriteFrame(q) ==
    IF Len(q) <= 1 THEN q ELSE <<Head(q), Newline>> \o WriteFrame(Tail(q))

\* the messages a peer finds in a transport write, splitting it at the newlines
Lines(f) == SelectSeq(f, LAMBDA e : e # Newline)

\* the trace gets the event that this step has put on Hub.Broadcast, if it has
LogPublish ==
    /\ trace' = IF Len(Broadcast') > Len(Broadcast)
                THEN Append(trace, [op |-> "publish", session |-> 0,
                                    bytes |-> <<messageToBytes(Broadcast'[Len(Broadcast')])>>])
                ELSE trace
    /\ UNCHANGED <<chanCap, db, call, mu>>

\* the trace gets the transport write session s makes in this step
LogWrite(s) ==
    /\ trace' = Append(trace, [op |-> "write", session |-> s,
                               bytes |-> WriteFrame(Send[s])])
    /\ UNCHANGED <<chanCap, db, call, mu>>

\* SpecFifo: channels of capacity FifoCap, sessions that stay, and a trace of the
\* sends on Hub.Broadcast and of the transport writes.
InitFifo == Start(FifoCap, FifoCap)

NextFifo ==
    \/ \E s \in Sessions, u \in Users : HandleWebSocket(s, u) /\ Quiet
    \/ \E s \in Sessions, a, b, c \in StoreUp : RunRegister(s, a, b, c) /\ Quiet
    \/ \E a \in StoreUp : RunBroadcast(a) /\ Quiet
    \/ \E s \in Sessions, chat \in Convs : ReadSubscribe(s, chat, "") /\ Quiet
    \/ \E s \in Sessions : WriteDrain(s) /\ LogWrite(s)
    \/ \E u \in Users, c \in Convs : SendMessage(u, c) /\ LogPublish

SpecFifo == InitFifo /\ [][NextFifo]_vars

RECURSIVE Flatten(_)
\* the sequences of a sequence, one after the other
Flatten(ss) == IF ss = <<>> THEN <<>> ELSE Head(ss) \o Flatten(Tail(ss))

RECURSIVE IsSubseq(_, _)
\* a is b with some of its elements left out
IsSubseq(a, b) ==
    IF a = <<>> THEN TRUE
    ELSE IF b = <<>> THEN FALSE
    ELSE IF Head(a) = Head(b) THEN IsSubseq(Tail(a), Tail(b))
    ELSE IsSubseq(a, Tail(b))

\* the events put on the publish queue so far, in the order of their sends
PublishedBytes ==
    Flatten([i \in 1..Len(SelectSeq(trace, LAMBDA e : e.op = "publish")) |->
                SelectSeq(trace, LAMBDA e : e.op = "publish")[i].bytes])

\* what session s has written to its transport so far, in order
WrittenBytes(s) ==
    Flatten([i \in 1..Len(SelectSeq(trace, LAMBDA e : e.op = "write" /\ e.session = s)) |->
                Lines(SelectSeq(trace, LAMBDA e : e.op = "write" /\ e.session = s)[i].bytes)])

\* the events of the publish queue among bytes (presence events come from the
\* Register and Unregister cases, not from the publish queue)
FromPublishQueue(q) == SelectSeq(q, LAMBDA e : e.Type \notin {"online", "offline"})

\* C13: the publish queue holds the events last put on it, in the order they were
\* put; the events of the publish queue that a session has written followed by
\* those waiting on its outbound queue are, in that order, events put on the
\* publish queue in that order; and between the queues there is no order: while a
\* Register request and an event of the publish queue both wait, the Router may
\* take either.
C13_PublishQueueFifo ==
    /\ \A i \in 1..Len(Broadcast) :
          messageToBytes(Broadcast[i])
            = PublishedBytes[Len(PublishedBytes) - Len(Broadcast) + i]
    /\ \A s \in Sessions :
          IsSubseq(FromPublishQueue(WrittenBytes(s) \o Send[s]), PublishedBytes)
    /\ \A s \in Sessions :
          (pc[s] = "registering" /\ Broadcast # <<>> /\ ~panicked)
          => /\ ENABLED (\E a, b, c \in StoreUp : RunRegister(s, a, b, c) /\ Quiet)
             /\ ENABLED (\E a \in StoreUp : RunBroadcast(a) /\ Quiet)

\* C13 witness: two different events were put on the publish queue and a session
\* has written both, the first before the second, in one transport write.
C13_Witness ==
    \E s \in Sessions, i \in 1..Len(trace) :
        /\ Len(PublishedBytes) = 2 /\ PublishedBytes[1] # PublishedBytes[2]
        /\ trace[i] = [op |-> "write", session |-> s,
                       bytes |-> <<PublishedBytes[1], Newline, PublishedBytes[2]>>]
        /\ Broadcast = <<>> /\ Send[s] = <<>>

\* ---------------------------------------------------------------- frames
\* mutant: the switch has no case for the control frames
ReadFrame_AllForwarded(s, m) == ReadForward(s, m)

\* ReadPump, a frame that json.Unmarshal accepted: switch message.Type
ReadFrame(s, m) ==
    CASE m.Type = "subscribe" -> ReadSubscribe(s, m.ChatID, m.GroupID)
      [] m.Type = "unsubscribe" -> ReadUnsubscribe(s, m.ChatID, m.GroupID)
      [] OTHER -> ReadForward(s, m)

\* the kinds of event the wire format names
KnownKinds == {"message", "typing", "reaction", "read_receipt", "online", "offline"}

\* the frames the client of user u sends: control frames, typing frames and frames
\* of a kind nobody knows ("ping", and the empty kind of a frame without a type)
Frames(u) ==
    {Message(k, f[1], f[2], u) : k \in {"subscribe", "unsubscribe"}, f \in ControlFrames}
    \cup {Message("typing", "c1", "", u), Message("ping", "c1", "", u),
          Message("", "", "", u)}

\* SpecFrames: sessions of any user, and every frame their reader loops may read.
NextFrames ==
    \/ \E s \in Sessions, u \in Accounts : HandleWebSocket(s, u) /\ Quiet
    \/ \E s \in Sessions, a, b, c \in StoreUp : RunRegister(s, a, b, c) /\ Quiet
    \/ \E s \in Sessions, a, b, c \in StoreUp : RunUnregister(s, a, b, c) /\ Quiet
    \/ \E a \in StoreUp : RunBroadcast(a) /\ Quiet
    \/ \E s \in Sessions : \E m \in Frames(owner[s]) : ReadFrame(s, m) /\ Quiet
    \/ \E s \in Sessions : ReadError(s) /\ Quiet
    \/ \E s \in Sessions : WriteDrain(s) /\ Quiet
    \/ \E s \in Sessions : WriteClose(s) /\ Quiet

SpecFrames == Init /\ [][NextFrames]_vars

\* a step in which the reader loop of session s may have read a frame that changed
\* something
FrameStep(s) ==
    /\ pc[s] = "active" /\ pc' = pc
    /\ Chats' # Chats \/ Len(Broadcast') > Len(Broadcast)

\* C14: a 'subscribe' or 'unsubscribe' frame read by a session's reader loop leaves
\* the publish queue and everything but that session's subscription set as it
\* was; a frame of any other type is appended to the publish queue and leaves every
\* subscription set as it was.
C14_ControlFramesStayLocal ==
    [][ \A s \in Sessions :
          FrameStep(s)
          => \A m \in Frames(owner[s]) :
                ReadFrame(s, m)
                => IF m.Type \in {"subscribe", "unsubscribe"}
                   THEN /\ Broadcast' = Broadcast /\ published' = published
                        /\ \A r \in Sessions \ {s} : Chats'[r] = Chats[r]
                        /\ Chats'[s] = IF m.Type = "subscribe"
                                       THEN Chats[s] \cup ({m.ChatID, m.GroupID} \ {""})
                                       ELSE Chats[s] \ {m.ChatID, m.GroupID}
                        /\ UNCHANGED <<clients, Send, closed, pc, wpc, online, store>>
                   ELSE /\ Broadcast' = Append(Broadcast, m)
                        /\ Chats' = Chats
                        /\ UNCHANGED <<clients, Send, closed, pc, wpc, online,
                                       store>> ]_vars

\* C14 witness: a session has subscribed to c1 and then sent a typing frame: the
\* frame waits on the publish queue, the subscription set holds c1 alone, and the
\* other session's set is empty.
C14_Witness ==
    \E s, r \in Sessions :
        /\ s # r /\ pc[s] = "active" /\ pc[r] = "active"
        /\ Chats[s] = {"c1"} /\ Chats[r] = {}
        /\ Broadcast = <<Message("typing", "c1", "", owner[s])>>
        /\ published = 1

\* C17 (as claimed): an event of a kind that is none of message, typing, reaction,
\* read_receipt, online, offline is appended to the queue of every registered
\* session, whatever the subscription sets and the friend lists.
C17_UnknownKindToAll ==
    [][ ( /\ BroadcastStep
          /\ Head(Broadcast).Type \notin KnownKinds )
        => \A s \in Sessions :
              Send'[s] = IF Registered(s)
                         THEN Append(Send[s], messageToBytes(Head(Broadcast)))
                         ELSE Send[s] ]_vars

\* C17 (amended): such an event is appended to the queue of every registered
\* session whose queue is not full, whatever the subscription sets and the friend
\* lists; a registered session whose queue is full is evicted and gets nothing;
\* the queue of a session that is not registered is left as it was.
C17_UnknownKindToAllWithRoom ==
    [][ ( /\ BroadcastStep
          /\ Head(Broadcast).Type \notin KnownKinds )
        => \A s \in Sessions :
              /\ Send'[s] = IF Registered(s) /\ Len(Send[s]) < chanCap.Send
                            THEN Append(Send[s], messageToBytes(Head(Broadcast)))
                            ELSE Send[s]
              /\ (Registered(s) /\ Len(Send[s]) = chanCap.Send)
                 => (closed'[s] /\ ~Registered(s)') ]_vars

\* C17 witness: the sessions of two users who are not friends, neither subscribed to
\* anything, both hold the 'ping' event one of them sent.
C17_Witness ==
    \E s, r \in Sessions :
        /\ Registered(s) /\ Registered(r)
        /\ owner[s] = "u1" /\ owner[r] = "u3"
        /\ Chats[s] = {} /\ Chats[r] = {}
        /\ Send[s] = <<[Type |-> "ping", ChatID |-> "c1", SenderID |-> "u1"]>>
        /\ Send[r] = Send[s]
        /\ Broadcast = <<>>

\* ---------------------------------------------------------------- errors
\* log.Printf, and the JSON error answer of the handler: a line on the trace
LogLine(line, s) ==
    /\ Len(trace) < MaxLog
    /\ trace' = Append(trace, [op |-> line, session |-> s, bytes |-> <<>>])
    /\ UNCHANGED <<chanCap, db, call, mu>>

\* the credential of an upgrade request: none, or a token for a user with a
\* signature that verifies or does not
NoToken == [sub |-> "", sig |-> ""]
Tokens == {NoToken} \cup {[sub |-> u, sig |-> k] : u \in Users, k \in {"good", "bad"}}

\* mutant: every token verifies
ValidateToken_Any(tok) == TRUE

\* jwt.ValidateToken returns no error
ValidateToken(tok) == tok.sig = "good"

\* HandleWebSocket, from the request on: 401 without a token or with one that
\* does not verify, else the client is made and sent to Hub.Register
HandleWebSocketRequest(s, tok) ==
    IF tok = NoToken
    THEN ~panicked /\ UNCHANGED hub /\ LogLine("401 token required", 0)
    ELSE IF ~ValidateToken(tok)
    THEN ~panicked /\ UNCHANGED hub /\ LogLine("401 invalid or expired token", 0)
    ELSE HandleWebSocket(s, tok.sub) /\ Quiet

\* mutant: the reader loop breaks on a frame it cannot parse
ReadMalformed_Break(s) == ReadError(s) /\ LogLine("unmarshal error", s)

\* ReadPump, a frame that json.Unmarshal rejects: log and continue
ReadMalformed(s) ==
    /\ ~panicked
    /\ pc[s] = "active"
    /\ UNCHANGED hub
    /\ LogLine("unmarshal error", s)

\* SpecErrors: upgrade requests with and without a good credential, and reader
\* loops that read control frames and frames that do not parse.
NextErrors ==
    \/ \E s \in Sessions, tok \in Tokens : HandleWebSocketRequest(s, tok)
    \/ \E s \in Sessions, a, b, c \in StoreUp : RunRegister(s, a, b, c) /\ Quiet
    \/ \E s \in Sessions, a, b, c \in StoreUp : RunUnregister(s, a, b, c) /\ Quiet
    \/ \E s \in Sessions, k \in {"subscribe", "unsubscribe"} :
          ReadFrame(s, Message(k, "c1", "", owner[s])) /\ Quiet
    \/ \E s \in Sessions : ReadMalformed(s)
    \/ \E s \in Sessions : ReadError(s) /\ Quiet
    \/ \E s \in Sessions : WriteDrain(s) /\ Quiet
    \/ \E s \in Sessions : WriteClose(s) /\ Quiet

SpecErrors == Init /\ [][NextErrors]_vars

\* the last line of the trace
LastLine == trace[Len(trace)]

\* C15: an upgrade request without a credential, or with one that does not verify,
\* is answered 401 and changes nothing else: no session is made, no Register
\* request is sent, the registry is as it was.
C15_UnauthorizedUpgradeRejected ==
    [][ (pc' # pc \/ trace' # trace)
        => \A s \in Sessions, tok \in Tokens :
              ((tok = NoToken \/ tok.sig # "good") /\ HandleWebSocketRequest(s, tok))
              => /\ UNCHANGED <<clients, owner, pc, wpc, Send, closed, Chats, online,
                                Broadcast>>
                 /\ Len(trace') = Len(trace) + 1
                 /\ LastLine'.op \in {"401 token required",
                                      "401 invalid or expired token"} ]_vars

\* C15 witness: two requests were answered 401, one for want of a token and one
\* for a token of u1 that does not verify; u2 is connected, and no session of u1
\* exists.
C15_Witness ==
    /\ Len(trace) = 2
    /\ {trace[1].op, trace[2].op} = {"401 token required", "401 invalid or expired token"}
    /\ \E s \in Sessions : Registered(s) /\ owner[s] = "u2"
    /\ \A s \in Sessions : owner[s] # "u1"
    /\ \E s \in Sessions : pc[s] = "new"

\* C16: a frame that cannot be parsed is logged and dropped: the reader loop goes
\* on, the session is in the registry if it was, the subscription sets and the
\* publish queue are as they were.
C16_MalformedFrameDiscarded ==
    [][ (pc' # pc \/ trace' # trace)
        => \A s \in Sessions :
              ReadMalformed(s)
              => /\ pc'[s] = "active"
                 /\ Registered(s)' = Registered(s)
                 /\ Chats' = Chats
                 /\ Broadcast' = Broadcast /\ published' = published
                 /\ UNCHANGED <<clients, Send, closed, wpc>>
                 /\ LastLine' = [op |-> "unmarshal error", session |-> s,
                                 bytes |-> <<>>] ]_vars

\* C16 witness: a registered session subscribed to c1 has read a frame that did not
\* parse: it is still registered and subscribed, and its reader loop is running
\* and can read the next frame.
C16_Witness ==
    \E s \in Sessions :
        /\ trace = <<[op |-> "unmarshal error", session |-> s, bytes |-> <<>>]>>
        /\ Registered(s) /\ pc[s] = "active"
        /\ Chats[s] = {"c1"}
        /\ ENABLED (ReadFrame(s, Message("unsubscribe", "c1", "", owner[s])) /\ Quiet)

\* ---------------------------------------------------------------- Hub.mu
\* h.mu.Lock() ... h.mu.Unlock() around the map write of the Register and
\* Unregister cases: Lock waits until nobody holds the read lock
RegisterLocked(s, okUpdate, okStatus, okFriends) ==
    /\ mu = {}
    /\ RunRegister(s, okUpdate, okStatus, okFriends)
    /\ UNCHANGED <<chanCap, db, call, mu, trace>>

UnregisterLocked(s, okUpdate, okStatus, okFriends) ==
    /\ mu = {}
    /\ RunUnregister(s, okUpdate, okStatus, okFriends)
    /\ UNCHANGED <<chanCap, db, call, mu, trace>>

\* broadcastToChat, broadcastToFriends, broadcastToAll: h.mu.RLock().  The event
\* the Router is fanning out is the head of Broadcast until the fan-out is done.
BroadcastRLock ==
    /\ ~panicked
    /\ Broadcast # <<>>
    /\ "Run" \notin mu
    /\ mu' = mu \cup {"Run"}
    /\ UNCHANGED hub
    /\ UNCHANGED <<chanCap, db, call, trace>>

\* the rest of broadcastTo...: the store lookup (broadcastToFriends), the loop
\* over the clients with its sends, closes and deletes, and the deferred RUnlock
BroadcastRUnlock(okFriends) ==
    /\ "Run" \in mu
    /\ RunBroadcast(okFriends)
    /\ mu' = mu \ {"Run"}
    /\ UNCHANGED <<chanCap, db, call, trace>>

\* Hub.IsUserOnline, Hub.GetClient, called by the HTTP layer: h.mu.RLock()
IsUserOnlineRLock ==
    /\ ~panicked
    /\ "IsUserOnline" \notin mu
    /\ mu' = mu \cup {"IsUserOnline"}
    /\ UNCHANGED hub
    /\ UNCHANGED <<chanCap, db, call, trace>>

\* ... the map read and the deferred h.mu.RUnlock()
IsUserOnlineRUnlock ==
    /\ ~panicked
    /\ "IsUserOnline" \in mu
    /\ mu' = mu \ {"IsUserOnline"}
    /\ UNCHANGED hub
    /\ UNCHANGED <<chanCap, db, call, trace>>

\* the frames the reader loops forward here: a message of c1, a presence event
LockFrames(u) == {Message("message", "c1", "", u), Message("online", "", "", u)}

\* SpecLock: the Router's fan-out from RLock to RUnlock, beside the presence
\* queries of the HTTP layer.
NextLock ==
    \/ \E s \in Sessions, u \in Users : HandleWebSocket(s, u) /\ Quiet
    \/ \E s \in Sessions, a, b, c \in StoreUp : RegisterLocked(s, a, b, c)
    \/ \E s \in Sessions, a, b, c \in StoreUp : UnregisterLocked(s, a, b, c)
    \/ BroadcastRLock
    \/ \E a \in BOOLEAN : BroadcastRUnlock(a)
    \/ IsUserOnlineRLock
    \/ IsUserOnlineRUnlock
    \/ \E s \in Sessions : ReadSubscribe(s, "c1", "") /\ Quiet
    \/ \E s \in Sessions : \E m \in LockFrames(owner[s]) : ReadForward(s, m) /\ Quiet
    \/ \E s \in Sessions : ReadError(s) /\ Quiet
    \/ \E s \in Sessions : WriteDrain(s) /\ Quiet
    \/ \E s \in Sessions : WriteClose(s) /\ Quiet

SpecLock == Init /\ [][NextLock]_vars

\* C18 (as claimed): the registry map is changed only while the write lock is held:
\* never while the Router holds the read lock alone, and never while a presence
\* query holds the read lock for its snapshot.
C18_RegistryWrittenUnderWriteLock ==
    [][ clients' # clients => mu = {} ]_vars

\* the Router waits for the store's answer to the GetByID of broadcastToFriends
AwaitingStore ==
    /\ "Run" \in mu
    /\ Broadcast # <<>>
    /\ Head(Broadcast).Type \in {"online", "offline"}

\* C19 (as claimed): the Router is never waiting for the store with the registry
\* lock in its hands, so while the store is silent the Router can still take a
\* Register request that waits.
C19_NoStoreCallUnderLock ==
    \A s \in Sessions :
        (AwaitingStore /\ pc[s] = "registering" /\ ~panicked)
        => /\ "Run" \notin mu
           /\ ENABLED (\E a, b, c \in StoreUp : RegisterLocked(s, a, b, c))

\* ---------------------------------------------------------------- teardown
\* WritePump has returned: its deferred c.Conn.Ws.Close() has closed the transport
ConnClosed(s) == wpc[s] \in {"done", "failed"}

\* ReadMessage fails because the transport is closed
ReadClosedConn(s) == ConnClosed(s) /\ ReadError(s) /\ Quiet

\* case client := <-h.Unregister, whatever the store answers
TakeUnregister(s) == \E a, b, c \in StoreUp : RunUnregister(s, a, b, c) /\ Quiet

\* SpecTeardown: sessions whose writer loop may fail, under the scheduling Go gives:
\* a read on a closed transport returns, and the select of Hub.Run takes a request
\* that keeps waiting on Hub.Unregister.
NextTeardown ==
    \/ \E s \in Sessions, u \in Users : HandleWebSocket(s, u) /\ Quiet
    \/ \E s \in Sessions, a, b, c \in StoreUp : RunRegister(s, a, b, c) /\ Quiet
    \/ \E s \in Sessions : TakeUnregister(s)
    \/ \E a \in StoreUp : RunBroadcast(a) /\ Quiet
    \/ \E s \in Sessions : ReadSubscribe(s, "c1", "") /\ Quiet
    \/ \E s \in Sessions : ReadError(s) /\ Quiet
    \/ \E s \in Sessions : WriteDrain(s) /\ Quiet
    \/ \E s \in Sessions : WriteClose(s) /\ Quiet
    \/ \E s \in Sessions : WriteError(s) /\ Quiet
    \/ \E u \in Users : SendMessage(u, "c1") /\ Quiet

SpecTeardown ==
    /\ Init /\ [][NextTeardown]_vars
    /\ \A s \in Sessions : WF_vars(ReadClosedConn(s)) /\ WF_vars(TakeUnregister(s))

\* C20 (as claimed): once a session's writer loop has ended on a write or ping
\* error, its reader loop ends and the Router gets through the Unregister of the
\* session.
C20_WriterErrorLeadsToUnregister ==
    \A s \in Sessions : (wpc[s] = "failed") ~> (pc[s] = "closed")

\* ---------------------------------------------------------------- closed queues
\* the writer loop takes what c.Send holds, or the !ok of the closed channel
WriteNext(s) == (WriteDrain(s) \/ WriteClose(s)) /\ Quiet

\* SpecDrain: the sessions of SpecTeardown, where moreover a writer loop whose
\* select has a case ready is scheduled.
SpecDrain ==
    /\ Init /\ [][NextTeardown]_vars
    /\ \A s \in Sessions :
          /\ WF_vars(WriteNext(s))
          /\ WF_vars(ReadClosedConn(s))
          /\ WF_vars(TakeUnregister(s))

\* WritePump has returned, with nothing left in the queue when it ended on the close
WriterEnded(s) == wpc[s] = "failed" \/ (wpc[s] = "done" /\ Send[s] = <<>>)

\* ReadPump has left its loop (it waits on Hub.Unregister, or the Router took it)
ReaderEnded(s) == pc[s] \in {"unregistering", "closed"}

\* C21 (as claimed): once a session's outbound queue is closed, its writer loop
\* ends with the queue written out and the session gets to Closed (reader loop
\* ended and unregistered, transport closed); and every session whose reader loop
\* has ended gets its outbound queue closed.
C21_ClosedQueueEndsSession ==
    \A s \in Sessions :
        /\ closed[s] ~> (WriterEnded(s) /\ pc[s] = "closed")
        /\ ReaderEnded(s) ~> closed[s]

\* ---------------------------------------------------------------- supersession
\* SpecSupersede: three connections of two friends, so that a user connects again
\* while a friend is registered; the store may fail any lookup.
InitSupersede == StartOf(SendCap, BroadcastCap, MaxSlots)

NextSupersede ==
    \/ \E s \in Sessions, u \in Users : HandleWebSocket(s, u) /\ Quiet
    \/ \E s \in Sessions, a, b, c \in BOOLEAN : RunRegister(s, a, b, c) /\ Quiet
    \/ \E s \in Sessions, a, b, c \in BOOLEAN : RunUnregister(s, a, b, c) /\ Quiet
    \/ \E s \in Sessions : ReadSubscribe(s, "c1", "") /\ Quiet
    \/ \E s \in Sessions : ReadError(s) /\ Quiet
    \/ \E s \in Sessions : WriteDrain(s) /\ Quiet
    \/ \E s \in Sessions : WriteClose(s) /\ Quiet

SpecSupersede == InitSupersede /\ [][NextSupersede]_vars

\* the registry's entries of the users other than u
EntriesOfOthers(cl, u) == {p \in cl : p[1] # u}

\* the Router takes Register(u, s2) while s1 is the registry's entry for u
Supersedes(s2, s1) ==
    /\ s1 # s2
    /\ <<owner[s2], s1>> \in clients
    /\ RegisterStep(s2)

\* what Register(u, s2) does to s1 and to u's own entry, in the claim and in the code
SupersededKept(s2, s1) ==
    /\ GetClient(clients', owner[s2]) = {s2}
    /\ closed'[s1] = closed[s1]
    /\ Send'[s1] = Send[s1]
    /\ Chats'[s1] = Chats[s1]

\* a queue that is closed while its session is not in the registry is closed by
\* the Unregister of that very session
ClosedByOwnTeardown ==
    \A s \in Sessions :
        (closed'[s] /\ ~closed[s] /\ ~Registered(s)) => UnregisterStep(s)

\* C22 (as claimed): Register(u, s2) while s1 is the entry for u replaces only the
\* entry for u: s1's queue is not closed, s1's subscription set is not changed,
\* the entries of all other users are left as they were; and s1's queue, once s1
\* is out of the registry, is closed only by s1's own teardown.
C22_RegisterReplacesOnlyEntry ==
    [][/\ \A s1, s2 \in Sessions :
             Supersedes(s2, s1)
             => /\ SupersededKept(s2, s1)
                /\ EntriesOfOthers(clients', owner[s2]) = EntriesOfOthers(clients, owner[s2])
       /\ ClosedByOwnTeardown]_vars

\* C22 (amended): the same, except that the 'online' event of the Register evicts
\* the friends of u whose queue is full: an entry of another user that goes is the
\* entry of a friend of u whose queue was full and is now closed, and no other
\* entry goes or comes.
C22_RegisterReplacesEntryEvictsFullFriends ==
    [][/\ \A s1, s2 \in Sessions :
             Supersedes(s2, s1)
             => /\ SupersededKept(s2, s1)
                /\ EntriesOfOthers(clients', owner[s2]) \subseteq EntriesOfOthers(clients, owner[s2])
                /\ \A p \in EntriesOfOthers(clients, owner[s2]) \ clients' :
                      /\ p[1] \in Friends(owner[s2])
                      /\ Len(Send[p[2]]) >= chanCap.Send
                      /\ ~closed[p[2]] /\ closed'[p[2]]
       /\ ClosedByOwnTeardown]_vars

\* witness of C22: u1 is registered again, its first session superseded with its
\* subscription and its queue still open, and the friend u2, whose queue was full,
\* has been evicted by the 'online' event
C22_Witness ==
    \E s1, s2, f \in Sessions :
        /\ s1 # s2 /\ owner[s1] = "u1" /\ owner[s2] = "u1" /\ owner[f] = "u2"
        /\ Registered(s2) /\ pc[s1] = "active" /\ ~closed[s1]
        /\ Chats[s1] = {"c1"}
        /\ pc[f] = "active" /\ closed[f] /\ ~Registered(f)
        /\ Send[f] = <<messageToBytes(StatusMessage("u1", TRUE))>>

\* ---------------------------------------------------------------- coalescing
\* the queue of session s as its writer loop found it at each wake, in order
Wakes(s) == SelectSeq(trace, LAMBDA e : e.op = "wake" /\ e.session = s)

\* the transport writes of session s, in order
Writes(s) == SelectSeq(trace, LAMBDA e : e.op = "write" /\ e.session = s)

\* the queue as the wake under way found it; its head is the message received
LastWake(s) == Wakes(s)[Len(Wakes(s))].bytes

\* case message, ok := <-c.Send with ok: the loop wakes on a queue of k >= 1
\* messages and receives the first; NextWriter succeeds, w.Write(message)
WriteReceive(s) ==
    /\ ~panicked
    /\ wpc[s] = "run"
    /\ Send[s] # <<>>
    /\ Send' = [Send EXCEPT ![s] = Tail(@)]
    /\ wpc' = [wpc EXCEPT ![s] = "writing"]
    /\ trace' = Append(trace, [op |-> "wake", session |-> s, bytes |-> Send[s]])
    /\ UNCHANGED <<clients, Broadcast, owner, pc, closed, Chats, online, store,
                   panicked, published, dropped, chanCap, mu, db, call>>

\* n := len(c.Send); n times a newline and w.Write(<-c.Send); w.Close() succeeds.
\* The loop is the only receiver, so what it receives are the n messages the queue
\* held when its length was read
WriteCoalesce(s) ==
    /\ ~panicked
    /\ wpc[s] = "writing"
    /\ Send' = [Send EXCEPT ![s] = <<>>]
    /\ wpc' = [wpc EXCEPT ![s] = "run"]
    /\ trace' = Append(trace, [op |-> "write", session |-> s,
                               bytes |-> WriteFrame(<<Head(LastWake(s))>> \o Send[s])])
    /\ UNCHANGED <<clients, Broadcast, owner, pc, closed, Chats, online, store,
                   panicked, published, dropped, chanCap, mu, db, call>>

\* the same, and w.Close() fails: return
WriteCoalesceError(s) ==
    /\ ~panicked
    /\ wpc[s] = "writing"
    /\ Send' = [Send EXCEPT ![s] = <<>>]
    /\ wpc' = [wpc EXCEPT ![s] = "failed"]
    /\ UNCHANGED <<clients, Broadcast, owner, pc, closed, Chats, online, store,
                   panicked, published, dropped>>

\* SpecCoalesce: channels of capacity FifoCap and writer loops taken at each of
\* their channel operations, so that the Router may enqueue while a write is being
\* put together; the trace has the wakes and the transport writes.
NextCoalesce ==
    \/ \E s \in Sessions, u \in Users : HandleWebSocket(s, u) /\ Quiet
    \/ \E s \in Sessions, a, b, c \in StoreUp : RunRegister(s, a, b, c) /\ Quiet
    \/ \E a \in StoreUp : RunBroadcast(a) /\ Quiet
    \/ \E s \in Sessions : ReadSubscribe(s, "c1", "") /\ Quiet
    \/ \E s \in Sessions : WriteReceive(s)
    \/ \E s \in Sessions : WriteCoalesce(s)
    \/ \E s \in Sessions : WriteCoalesceError(s) /\ Quiet
    \/ \E u \in Users : SendMessage(u, "c1") /\ Quiet

SpecCoalesce == InitFifo /\ [][NextCoalesce]_vars

\* a transport write is messages with one newline between each two of them
Framed(f) ==
    /\ Len(f) % 2 = 1
    /\ \A i \in 1..Len(f) : (f[i] = Newline) <=> (i % 2 = 0)

RECURSIVE IsPrefix(_, _)
\* a is the beginning of b
IsPrefix(a, b) ==
    IF a = <<>> THEN TRUE
    ELSE IF b = <<>> THEN FALSE
    ELSE Head(a) = Head(b) /\ IsPrefix(Tail(a), Tail(b))

\* the messages of session s from the first it was sent: those written, the one
\* the write under way holds, and those waiting on the queue
Outbound(s, tr, w, q) ==
    Flatten([i \in 1..Len(SelectSeq(tr, LAMBDA e : e.op = "write" /\ e.session = s)) |->
                Lines(SelectSeq(tr, LAMBDA e : e.op = "write" /\ e.session = s)[i].bytes)])
    \o (IF w[s] = "writing"
        THEN <<Head(SelectSeq(tr, LAMBDA e : e.op = "wake" /\ e.session = s)
                      [Len(SelectSeq(tr, LAMBDA e : e.op = "wake" /\ e.session = s))].bytes)>>
        ELSE <<>>)
    \o q[s]

\* no message is skipped or duplicated from wake to wake: a step of a writer loop
\* that goes on leaves the messages of its session as they are, and any other
\* step at most sends the session some more
NoneSkippedNoneTwice ==
    \A s \in Sessions :
        /\ (wpc'[s] # wpc[s] /\ {wpc[s], wpc'[s]} = {"run", "writing"})
           => Outbound(s, trace', wpc', Send') = Outbound(s, trace, wpc, Send)
        /\ wpc'[s] # "failed"
           => IsPrefix(Outbound(s, trace, wpc, Send), Outbound(s, trace', wpc', Send'))

\* the transport write that session s has made in this step
Written(s) == trace'[Len(trace')].bytes

\* C23 (as claimed): the transport write of a wake is exactly the messages the
\* queue held at the wake, each once, in the order of the queue, a newline between
\* them; and no message is skipped or duplicated from wake to wake.
C23_WriteIsQueueAtWake ==
    [][/\ \A s \in Sessions :
             (wpc[s] = "writing" /\ wpc'[s] = "run")
             => /\ Framed(Written(s))
                /\ Lines(Written(s)) = LastWake(s)
       /\ NoneSkippedNoneTwice]_vars

\* C23 (amended): the transport write of a wake is the messages the queue held at
\* the wake followed by those enqueued until the loop read the length of the
\* queue, each once, in the order of the queue, a newline between them; and no
\* message is skipped or duplicated from wake to wake.
C23_WriteIsQueueAtLen ==
    [][/\ \A s \in Sessions :
             (wpc[s] = "writing" /\ wpc'[s] = "run")
             => /\ Framed(Written(s))
                /\ Lines(Written(s)) = <<Head(LastWake(s))>> \o Send[s]
                /\ IsPrefix(LastWake(s), Lines(Written(s)))
                /\ Send'[s] = <<>>
       /\ NoneSkippedNoneTwice]_vars

\* witness of C23: a session woke on a queue of two messages and has written the
\* two in one transport write, a newline between them
C23_Witness ==
    \E s \in Sessions :
        /\ Len(Writes(s)) = 1 /\ Len(Wakes(s)) = 1
        /\ Len(LastWake(s)) = 2
        /\ Writes(s)[1].bytes = <<LastWake(s)[1], Newline, LastWake(s)[2]>>
        /\ wpc[s] = "run" /\ Send[s] = <<>>

\* ---------------------------------------------------------------- lifecycle
\* where a session stands in its lifecycle, from its reader's position p and the
\* flag cz of its queue: 1 Connecting (no upgrade yet), 2 Authenticated (client
\* built, handler waiting on Hub.Register), 4 Registered and Active (the Router has
\* taken the Register and the pumps run), 5 Terminating (evicted, or reader loop
\* left and waiting on Hub.Unregister), 6 Closed (the Router has taken the
\* Unregister)
Stage(p, cz, s) ==
    CASE p[s] \in {"new", "none"} -> 1
      [] p[s] = "registering" -> 2
      [] p[s] \in {"active", "forwarding"} -> IF cz[s] THEN 5 ELSE 4
      [] p[s] = "unregistering" -> 5
      [] p[s] = "closed" -> 6

\* C24: the lifecycle is traversed forward only: a session never goes back to an
\* earlier stage and comes to Active through Authenticated only and to Closed
\* through Terminating only; a session enters the registry in the Register case
\* taken for it, which is taken once, before its Unregister; and the registry
\* holds no session that has been unregistered or evicted.
C24_LifecycleForward ==
    [][\A s \in Sessions :
          /\ Stage(pc', closed', s) >= Stage(pc, closed, s)
          /\ (Stage(pc', closed', s) = 4 /\ Stage(pc, closed, s) # 4)
             => Stage(pc, closed, s) = 2
          /\ (Stage(pc', closed', s) = 6 /\ Stage(pc, closed, s) # 6)
             => Stage(pc, closed, s) = 5 /\ UnregisterStep(s)
          /\ (<<owner'[s], s>> \in clients' /\ <<owner[s], s>> \notin clients)
             => RegisterStep(s)
          /\ <<owner'[s], s>> \in clients'
             => Stage(pc', closed', s) = 4 \/ (pc'[s] = "unregistering" /\ ~closed'[s])
      ]_vars

\* witness of C24: a session has gone through its whole lifecycle and a later
\* session of the same user is registered
C24_Witness ==
    \E s, r \in Sessions :
        /\ s < r /\ owner[s] = owner[r]
        /\ pc[s] = "closed" /\ closed[s] /\ wpc[s] = "done"
        /\ Registered(r) /\ pc[r] = "active"

\* ---------------------------------------------------------------- progress
\* the frame a client sends while it types in conversation c1
TypingFrame(u) == Message("typing", "c1", "", u)

\* ReadMessage returns a typing frame: case "typing" is entered, and the reader
\* loop is about to send on Hub.Broadcast
ReadTyping(s) ==
    /\ ~panicked
    /\ pc[s] = "active"
    /\ published < MaxPublish
    /\ pc' = [pc EXCEPT ![s] = "forwarding"]
    /\ published' = published + 1
    /\ UNCHANGED <<clients, Broadcast, owner, wpc, Send, closed, Chats, online, store,
                   panicked, dropped>>

\* c.Hub.Broadcast <- &message: the send goes through once the queue has room
ReadSend(s) ==
    /\ ~panicked
    /\ pc[s] = "forwarding"
    /\ Len(Broadcast) < chanCap.Broadcast
    /\ Broadcast' = Append(Broadcast, TypingFrame(owner[s]))
    /\ pc' = [pc EXCEPT ![s] = "active"]
    /\ UNCHANGED <<clients, owner, wpc, Send, closed, Chats, online, store,
                   panicked, published, dropped>>

\* case client := <-h.Register, whatever the store answers
TakeRegister(s) == \E a, b, c \in StoreUp : RunRegister(s, a, b, c) /\ Quiet

\* case message := <-h.Broadcast
TakeBroadcast == \E a \in StoreUp : RunBroadcast(a) /\ Quiet

\* the reader loop's send on Hub.Broadcast is completed
SendCompleted(s) == ReadSend(s) /\ Quiet

\* SpecProgress: the hub with reader loops that block on a full publish queue,
\* under the scheduling Go gives: the select of Hub.Run takes a case that stays
\* ready, and a sender blocked on a channel is served, in its turn, as the channel
\* is received from.
NextProgress ==
    \/ \E s \in Sessions, u \in Users : HandleWebSocket(s, u) /\ Quiet
    \/ \E s \in Sessions : TakeRegister(s)
    \/ \E s \in Sessions : TakeUnregister(s)
    \/ TakeBroadcast
    \/ \E s \in Sessions : ReadSubscribe(s, "c1", "") /\ Quiet
    \/ \E s \in Sessions : ReadTyping(s) /\ Quiet
    \/ \E s \in Sessions : SendCompleted(s)
    \/ \E s \in Sessions : ReadError(s) /\ Quiet
    \/ \E s \in Sessions : WriteDrain(s) /\ Quiet
    \/ \E s \in Sessions : WriteClose(s) /\ Quiet
    \/ \E u \in Users : SendMessage(u, "c1") /\ Quiet

SpecProgress ==
    /\ Init /\ [][NextProgress]_vars
    /\ WF_vars(TakeBroadcast)
    /\ \A s \in Sessions :
          /\ WF_vars(TakeRegister(s))
          /\ WF_vars(TakeUnregister(s))
          /\ SF_vars(SendCompleted(s))

\* C25 (as claimed): every Register that waits on Hub.Register, every Unregister
\* that waits on Hub.Unregister and every send of a reader loop that waits on
\* Hub.Broadcast is accepted in the end.
C25_PendingAccepted ==
    \A s \in Sessions :
        /\ (pc[s] = "registering") ~> (pc[s] = "active")
        /\ (pc[s] = "unregistering") ~> (pc[s] = "closed")
        /\ (pc[s] = "forwarding") ~> (pc[s] = "active")

\* ---------------------------------------------------------------- attribution
\* the users who have authenticated a connection so far
Authenticated == {owner[s] : s \in Sessions} \ {""}

\* C26 (as claimed): an event that a reader loop puts on the publish queue has
\* the user of a session whose reader loop runs as its sender, and no session is
\* delivered an event whose sender is a user who never authenticated a
\* connection.  (SpecPresence has no other sender on the publish queue than the
\* reader loops.)
C26_SenderIsAuthenticated ==
    [][/\ Len(Broadcast') > Len(Broadcast)
          => \E s \in Sessions :
                /\ pc[s] = "active"
                /\ ReadForward(s, Broadcast'[Len(Broadcast')])
                /\ Broadcast'[Len(Broadcast')].SenderID = owner[s]
       /\ \A r \in Sessions : \A i \in 1..Len(Send'[r]) :
             Send'[r][i].SenderID \in Authenticated'
      ]_vars

\* ---------------------------------------------------------------- stored presence
\* the session is connected: its reader loop runs and no pump has closed the
\* transport
Connected(s) == pc[s] = "active" /\ ~ConnClosed(s)

\* nothing waits on the Router and nothing is on its way: the publish queue is
\* empty, no Register and no Unregister waits, and every session that was
\* evicted or whose transport or reader loop has ended has had its Unregister
\* taken
Quiescent ==
    /\ ~panicked
    /\ Broadcast = <<>>
    /\ \A s \in Sessions :
          /\ pc[s] \notin {"registering", "unregistering"}
          /\ (closed[s] \/ ConnClosed(s)) => pc[s] = "closed"

\* C27 (as claimed): when the system is quiescent, user.Online in the store is
\* true exactly for the users the registry has an entry for, and an entry's
\* session is connected.  (The store answers every call in SpecTeardown.)
C27_QuiescentOnlineIsRegistered ==
    Quiescent
    => \A u \in Accounts :
          /\ online[u] <=> IsUserOnline(u)
          /\ \A s \in GetClient(clients, u) : Connected(s)

\* ---------------------------------------------------------------- friend requests
\* one UpdateOne on the users collection: {"$addToSet": {field: val}} or
\* {"$pull": {field: val}} on the document of user id
Update(op, id, field, val) == [op |-> op, id |-> id, field |-> field, val |-> val]

UpdateOne(d, w) ==
    [d EXCEPT ![w.field][w.id] = IF w.op = "$addToSet" THEN @ \cup {w.val}
                                                          ELSE @ \ {w.val}]

\* userRepository.AddFriend: two updates, one document each
UserRepoAddFriend(userID1, userID2) ==
    << Update("$addToSet", userID1, "friends", userID2),
       Update("$addToSet", userID2, "friends", userID1) >>

\* userRepository.AddSentRequest
AddSentRequest(userID, targetUserID) ==
    << Update("$addToSet", userID, "sent_requests", targetUserID),
       Update("$addToSet", targetUserID, "pending_requests", userID) >>

\* userRepository.RemoveSentRequest
RemoveSentRequest(userID, targetUserID) ==
    << Update("$pull", userID, "sent_requests", targetUserID),
       Update("$pull", targetUserID, "pending_requests", userID) >>

\* userRepository.RemovePendingRequest
RemovePendingRequest(userID, senderUserID) == RemoveSentRequest(senderUserID, userID)

\* a call is made: what it goes on to do, or the error it returns at once
Made(k, op, userID1, userID2, todo, err) ==
    /\ call[k] = NoCall
    /\ \A j \in Calls : j < k => call[j] # NoCall
    /\ call' = [call EXCEPT ![k] = [op |-> op, userID1 |-> userID1,
                                    userID2 |-> userID2, todo |-> todo,
                                    ret |-> IF err THEN "error" ELSE ""]]
    /\ UNCHANGED db

\* FriendUseCase.AddFriend up to its first write: user1 is read and decides
AddFriend(k, userID1, userID2) ==
    LET user1 == [Friends |-> db.friends[userID1],
                  SentRequests |-> db.sent_requests[userID1],
                  PendingRequests |-> db.pending_requests[userID1]]
    IN  IF userID2 \in user1.Friends \/ userID2 \in user1.SentRequests
        THEN Made(k, "AddFriend", userID1, userID2, <<>>, TRUE)
        ELSE IF userID2 \in user1.PendingRequests
        THEN Made(k, "AddFriend", userID1, userID2,
                  UserRepoAddFriend(userID1, userID2)
                  \o RemovePendingRequest(userID1, userID2)
                  \o RemoveSentRequest(userID2, userID1), FALSE)
        ELSE Made(k, "AddFriend", userID1, userID2,
                  AddSentRequest(userID1, userID2), FALSE)

\* FriendUseCase.AcceptFriendRequest up to its first write
AcceptFriendRequest(k, senderUserID, userID) ==
    IF senderUserID \notin db.pending_requests[userID]
    THEN Made(k, "AcceptFriendRequest", senderUserID, userID, <<>>, TRUE)
    ELSE Made(k, "AcceptFriendRequest", senderUserID, userID,
              UserRepoAddFriend(userID, senderUserID)
              \o RemovePendingRequest(userID, senderUserID)
              \o RemoveSentRequest(senderUserID, userID), FALSE)

\* FriendUseCase.RejectFriendRequest up to its first write
RejectFriendRequest(k, senderUserID, userID) ==
    IF senderUserID \notin db.pending_requests[userID]
    THEN Made(k, "RejectFriendRequest", senderUserID, userID, <<>>, TRUE)
    ELSE Made(k, "RejectFriendRequest", senderUserID, userID,
              RemovePendingRequest(userID, senderUserID)
              \o RemoveSentRequest(senderUserID, userID), FALSE)

\* the next UpdateOne of a call; after its last one the call returns nil
FriendWrite(k) ==
    /\ call[k].op \in {"AddFriend", "AcceptFriendRequest", "RejectFriendRequest"}
    /\ call[k].todo # <<>>
    /\ db' = UpdateOne(db, Head(call[k].todo))
    /\ call' = [call EXCEPT ![k].todo = Tail(@),
                            ![k].ret = IF Len(call[k].todo) = 1 THEN "nil" ELSE @]

\* SpecFriends: two users who start without friends and without requests, and
\* the calls they make, each running in a goroutine of its own.  The store
\* answers every call.
InitFriends == StartWith(SendCap, BroadcastCap, MaxSessions, [u \in Accounts |-> {}])

NextFriends ==
    \/ \E k \in Calls, u \in Users : \E v \in Users \ {u} :
          AddFriend(k, u, v) /\ UNCHANGED <<hub, chanCap, mu, trace>>
    \/ \E k \in Calls, u \in Users : \E v \in Users \ {u} :
          AcceptFriendRequest(k, u, v) /\ UNCHANGED <<hub, chanCap, mu, trace>>
    \/ \E k \in Calls, u \in Users : \E v \in Users \ {u} :
          RejectFriendRequest(k, u, v) /\ UNCHANGED <<hub, chanCap, mu, trace>>
    \/ \E k \in Calls : FriendWrite(k) /\ UNCHANGED <<hub, chanCap, mu, trace>>

SpecFriends == InitFriends /\ [][NextFriends]_vars

\* every call that was made has returned
Returned == \A k \in Calls : call[k].todo = <<>>

\* the three arrays agree
Consistent(d) ==
    \A u \in Accounts, v \in Accounts :
       /\ v \in d.sent_requests[u] <=> u \in d.pending_requests[v]
       /\ v \in d.friends[u] <=> u \in d.friends[v]
       /\ v \in d.friends[u] => /\ v \notin d.sent_requests[u]
                                /\ v \notin d.pending_requests[u]

\* C28 (as claimed): whatever the interleaving of AddFriend, AcceptFriendRequest
\* and RejectFriendRequest calls of two users, once the calls have returned v is
\* in u's sent requests exactly when u is in v's pending requests, friendship is
\* symmetric, and no two friends have an outstanding request between them.
C28_RequestsStayConsistent == Returned => Consistent(db)

\* ---------------------------------------------------------------- direct conversations
\* conversationRepository.GetDirectConversationByUserIDs: the direct conversations
\* whose members are exactly the two users; FindOne answers one of them
GetDirectConversationByUserIDs(d, userID1, userID2) ==
    {c \in d.conversations : c.Type = "direct" /\ c.Members = {userID1, userID2}}

\* generateID: an id no stored conversation has
generateID(d) == ToString(Cardinality(d.conversations) + 1)

\* conversationRepository.CreateConversation: InsertOne
CreateConversation(d, userID1, userID2) ==
    [d EXCEPT !.conversations =
        @ \cup {[ID |-> generateID(d), Type |-> "direct", Members |-> {userID1, userID2}]}]

\* ConversationUseCase.CreateDirectConversation up to the answer of its first
\* query: an existing conversation's id is returned, or the call goes on
CreateDirectConversation(k, userID1, userID2) ==
    /\ call[k] = NoCall
    /\ \A j \in Calls : j < k => call[j] # NoCall
    /\ LET found == GetDirectConversationByUserIDs(db, userID1, userID2)
           made == [op |-> "CreateDirectConversation", userID1 |-> userID1,
                    userID2 |-> userID2, todo |-> <<>>, ret |-> ""]
       IN  \/ /\ found = {}
              /\ call' = [call EXCEPT ![k] =
                            [made EXCEPT !.todo = <<"GetByID", "CreateConversation",
                                                    "GetDirectConversationByUserIDs">>]]
           \/ \E existingConv \in found :
                 call' = [call EXCEPT ![k] = [made EXCEPT !.ret = existingConv.ID]]
    /\ UNCHANGED db

\* the two users are read; user1.Friends decides
DirectGetByID(k) ==
    /\ call[k].op = "CreateDirectConversation"
    /\ call[k].todo # <<>> /\ Head(call[k].todo) = "GetByID"
    /\ call' = IF call[k].userID2 \in db.friends[call[k].userID1]
               THEN [call EXCEPT ![k].todo = Tail(@)]
               ELSE [call EXCEPT ![k].todo = <<>>, ![k].ret = "error"]
    /\ UNCHANGED db

\* the conversation is inserted
DirectCreate(k) ==
    /\ call[k].op = "CreateDirectConversation"
    /\ call[k].todo # <<>> /\ Head(call[k].todo) = "CreateConversation"
    /\ db' = CreateConversation(db, call[k].userID1, call[k].userID2)
    /\ call' = [call EXCEPT ![k].todo = Tail(@)]

\* the second query, whose answer's id is returned
DirectCreated(k) ==
    /\ call[k].op = "CreateDirectConversation"
    /\ call[k].todo # <<>> /\ Head(call[k].todo) = "GetDirectConversationByUserIDs"
    /\ \E createdConv \in GetDirectConversationByUserIDs(db, call[k].userID1,
                                                         call[k].userID2) :
          call' = [call EXCEPT ![k].todo = <<>>, ![k].ret = createdConv.ID]
    /\ UNCHANGED db

\* SpecDirect: the users of the store, of whom u1 and u2 are friends, and the
\* CreateDirectConversation calls they make, each in a goroutine of its own.  The
\* store answers every call.
NextDirect ==
    \/ \E k \in Calls, u \in Accounts : \E v \in Accounts \ {u} :
          CreateDirectConversation(k, u, v) /\ UNCHANGED <<hub, chanCap, mu, trace>>
    \/ \E k \in Calls : DirectGetByID(k) /\ UNCHANGED <<hub, chanCap, mu, trace>>
    \/ \E k \in Calls : DirectCreate(k) /\ UNCHANGED <<hub, chanCap, mu, trace>>
    \/ \E k \in Calls : DirectCreated(k) /\ UNCHANGED <<hub, chanCap, mu, trace>>

SpecDirect == Init /\ [][NextDirect]_vars

\* C29 (as claimed): whatever the interleaving of CreateDirectConversation calls,
\* no two direct conversations have the same pair of members; a conversation is
\* inserted only between two users who are friends; and a call made for a pair
\* that has a direct conversation returns that conversation's id and never
\* inserts one.
C29_OneDirectConversationPerPair ==
    [][/\ \A c \in db.conversations', e \in db.conversations' :
             c.Members = e.Members => c = e
       /\ \A c \in db.conversations' \ db.conversations :
             \E u \in c.Members : c.Members \ {u} \subseteq db.friends[u]
       /\ \A k \in Calls :
             ( /\ call[k] = NoCall /\ call'[k] # NoCall
               /\ GetDirectConversationByUserIDs(db, call'[k].userID1,
                                                 call'[k].userID2) # {} )
             => /\ call'[k].todo = <<>>
                /\ \E c \in GetDirectConversationByUserIDs(db, call'[k].userID1,
                                                           call'[k].userID2) :
                      call'[k].ret = c.ID
      ]_vars

\* ---------------------------------------------------------------- chat matching
\* the 'message' and 'typing' frames the client of user u sends: with a chat id,
\* with a group id, with both and with neither
MatchFrames(u) ==
    {Message(t, f[1], f[2], u) :
        t \in WsKinds, f \in {<<"c1", "">>, <<"", "c2">>, <<"c1", "c2">>, <<"", "">>}}

\* SpecMatch: sessions that subscribe with every kind of subscribe frame and forward
\* every kind of 'message' and 'typing' frame; the trace has the events forwarded.
\* The store answers every call.
NextMatch ==
    \/ \E s \in Sessions, u \in Users : HandleWebSocket(s, u) /\ Quiet
    \/ \E s \in Sessions : RunRegister(s, TRUE, TRUE, TRUE) /\ Quiet
    \/ RunBroadcast(TRUE) /\ Quiet
    \/ \E s \in Sessions, f \in ControlFrames : ReadSubscribe(s, f[1], f[2]) /\ Quiet
    \/ \E s \in Sessions : \E m \in MatchFrames(owner[s]) : ReadForward(s, m) /\ LogPublish
    \/ \E s \in Sessions : WriteDrain(s) /\ Quiet

SpecMatch == Init /\ [][NextMatch]_vars

\* C30: when the Router processes a 'message' or 'typing' event, the sessions it
\* delivers to or evicts are the registered sessions whose subscription set holds
\* the event's chatId, or its groupId when the chatId is empty, and every other
\* session is left as it was; an event whose chatId and groupId are both empty is
\* delivered to no session and evicts none; and no subscription set ever holds
\* the empty conversation id.
C30_MatchedByChatThenGroup ==
    /\ [][ ( /\ ~panicked /\ Broadcast # <<>>
             /\ Broadcast' = Tail(Broadcast) \/ panicked'
             /\ Head(Broadcast).Type \in {"message", "typing"} )
           => LET m == Head(Broadcast)
                  id == IF m.ChatID # "" THEN m.ChatID ELSE m.GroupID
                  subs == {s \in Sessions : Registered(s) /\ id \in Chats[s]}
              IN  /\ \A s \in Sessions \ subs :
                        /\ Send'[s] = Send[s] /\ closed'[s] = closed[s]
                        /\ Registered(s) => <<owner[s], s>> \in clients'
                  /\ \A s \in subs :
                        \/ panicked'
                        \/ Send'[s] = Append(Send[s], messageToBytes(m))
                        \/ /\ Len(Send[s]) = chanCap.Send
                           /\ closed'[s] /\ <<owner[s], s>> \notin clients'
                  /\ (m.ChatID = "" /\ m.GroupID = "")
                     => /\ Send' = Send /\ closed' = closed /\ clients' = clients
                        /\ ~panicked'
         ]_vars
    /\ [](\A s \in Sessions : "" \notin Chats[s])

\* C30 witness: a registered session subscribed to c2 holds, its queue full, an
\* event that came with a group id alone, and the event forwarded last, which had
\* neither id, has been processed and has left the session as it was.
C30_Witness ==
    \E s \in Sessions, u \in Users, t \in WsKinds :
        /\ Registered(s) /\ ~closed[s] /\ Chats[s] = {"c2"}
        /\ Len(Send[s]) = chanCap.Send
        /\ Send[s][1] = messageToBytes(Message("message", "", "c2", u))
        /\ Len(trace) = 2
        /\ trace[2] = [op |-> "publish", session |-> 0,
                       bytes |-> <<messageToBytes(Message(t, "", "", u))>>]
        /\ Broadcast = <<>> /\ ~panicked

====
